---- MODULE Spec2Model ----
(***************************************************************************)
(* Model of goagen/gen_main/generator.go: the skeleton generator           *)
(* (Generator.Generate, createMainFile, Cleanup), the signal watcher it    *)
(* starts, the temp-name allocator tempvar, and the success-response       *)
(* resolver okResp with the two handler stubs that are rendered from it.   *)
(*                                                                         *)
(* The output directory is a map from target paths to file contents.  A    *)
(* generation run is a sequence of steps of the generation thread, cut at  *)
(* the places where it touches state the watcher goroutine also touches    *)
(* (the genfiles slice and the files on disk).  The watcher's Cleanup is   *)
(* cut the same way: evaluation of the range expression, one os.Remove per *)
(* element, the final assignment of nil.                                   *)
(***************************************************************************)
EXTENDS Integers, Sequences, FiniteSets, TLC

\* Number of invocations of Generate in one process.
MaxRuns == 2

\* Number of calls of tempvar explored by SpecTemp.
MaxCalls == 120

\* At most this many target paths have a failing step.
MaxFailures == 1

----------------------------------------------------------------------------
\* The design model: the resources, listed by name.
Resources == <<"account", "bottle">>

NumRes == Len(Resources)

MainFile == "main.go"

\* filepath.Join(g.OutDir, codegen.SnakeCase(r.Name)+".go")
FileName(r) == IF r = "account" THEN "account.go" ELSE "bottle.go"

Paths == {MainFile} \cup {FileName(Resources[i]) : i \in 1..NumRes}

Range(s) == {s[i] : i \in DOMAIN s}

\* The orders in which the DSL may have added the resources to the design's
\* resource mapping.
Insertions == {<<"account", "bottle">>, <<"bottle", "account">>}

\* The bytes of a resource name, which Go's string comparison compares.
Spelling(r) ==
    IF r = "account" THEN <<97, 99, 99, 111, 117, 110, 116>>
    ELSE <<98, 111, 116, 116, 108, 101>>

\* a < b for byte strings.
RECURSIVE LexLess(_, _)
LexLess(a, b) ==
    IF a = <<>> THEN b # <<>>
    ELSE IF b = <<>> THEN FALSE
    ELSE IF Head(a) # Head(b) THEN Head(a) < Head(b)
    ELSE LexLess(Tail(a), Tail(b))

RECURSIVE InsertSorted(_, _)
InsertSorted(x, s) ==
    IF s = <<>> THEN <<x>>
    ELSE IF LexLess(Spelling(x), Spelling(Head(s))) THEN <<x>> \o s
    ELSE <<Head(s)>> \o InsertSorted(x, Tail(s))

\* sort.Strings on a list of resource names.
RECURSIVE SortStrings(_)
SortStrings(s) ==
    IF s = <<>> THEN <<>> ELSE InsertSorted(Head(s), SortStrings(Tail(s)))

\* A mutation of the mount order that follows the order of insertion.
MountOrderAsInserted(ins) == ins

\* {{range $name, $res := $api.Resources}} in mainT: text/template visits
\* the keys of a map in sorted order.
MountOrder(ins) == SortStrings(ins)

\* IterateResources calls the callback on the resources sorted by name.
IterateOrder(ins) == SortStrings(ins)

----------------------------------------------------------------------------
\* File contents.  "old" is content that was there before the process
\* started, "partial" a file that was opened and not completely rendered and
\* formatted, "gen" a completely generated file; tmps are the scratch
\* variable names the entry-point template emitted, body what the file holds:
\* the mounted resources in order (entry-point file), the rendered handler
\* stubs in order (resource file).
Absent == [kind |-> "absent", tmps |-> <<>>, body |-> <<>>]

Old == [kind |-> "old", tmps |-> <<>>, body |-> <<>>]

Partial == [kind |-> "partial", tmps |-> <<>>, body |-> <<>>]

Generated(t, b) == [kind |-> "gen", tmps |-> t, body |-> b]

\* A mutation of the existence test that finds no file.
ExistsNever(f, p) == FALSE

\* A mutation of the existence test that looks at the entry-point file
\* whatever path is asked for.
ExistsMainOnly(f, p) == f["main.go"].kind # "absent"

\* os.Stat(path) returns a nil error.
Exists(f, p) == f[p] # Absent

\* os.Remove(path); a missing file is not an error the code looks at.
RemoveFile(f, p) == [f EXCEPT ![p] = Absent]

\* A mutation of the Cleanup loop that stops before the last element.
RemoveAllButLast(f, files) ==
    [p \in DOMAIN f |->
        IF \E i \in 1..(Len(files) - 1) : files[i] = p THEN Absent ELSE f[p]]

\* for _, f := range g.genfiles { os.Remove(f) }
RemoveAll(f, files) ==
    [p \in DOMAIN f |-> IF p \in Range(files) THEN Absent ELSE f[p]]

----------------------------------------------------------------------------
\* Decimal rendering of a positive integer (the %d verb of fmt.Sprintf).
DigitChars == <<"0", "1", "2", "3", "4", "5", "6", "7", "8", "9">>

RECURSIVE Decimal(_)
Decimal(n) ==
    IF n < 10 THEN <<DigitChars[n + 1]>>
    ELSE Decimal(n \div 10) \o <<DigitChars[(n % 10) + 1]>>

\* A mutation of tempvar's result that numbers from the counter before the
\* increment.
TempNameStale(count) ==
    IF count <= 2 THEN <<"c">> ELSE <<"c">> \o Decimal(count - 1)

\* The name tempvar returns once it has incremented tempCount to count.
TempName(count) ==
    IF count = 1 THEN <<"c">> ELSE <<"c">> \o Decimal(count)

\* A mutation of the allocator that numbers every batch of names from one.
TempNamesFromZero(c, k) == [i \in 1..k |-> TempName(i)]

\* The names returned by k consecutive calls of tempvar from counter value c.
TempNames(c, k) == [i \in 1..k |-> TempName(c + i)]

----------------------------------------------------------------------------
\* The design data the success-response resolver reads.

\* The status okResp looks for.
StatusOK == 200

\* design.DefaultView
DefaultView == "default"

\* Media-type identifiers as written in a response: a base identifier and
\* optional parameters or suffix.
MediaIds ==
    {[base |-> "application/vnd.account", params |-> ""],
     [base |-> "application/vnd.account", params |-> "; type=x"],
     [base |-> "application/vnd.bottles", params |-> ""],
     [base |-> "application/vnd.goa.error", params |-> ""],
     [base |-> "application/vnd.raw", params |-> ""],
     [base |-> "application/vnd.unknown", params |-> ""]}

\* design.CanonicalIdentifier: the identifier without its parameters.
CanonicalIdentifier(id) == id.base

\* design.Design.MediaTypes: canonical identifier -> media type.  "raw" has
\* no view named "default"; "bottles" is a collection, whose Go type
\* reference is not a pointer.
MediaTypes ==
    [k \in {"application/vnd.account", "application/vnd.bottles",
            "application/vnd.goa.error", "application/vnd.raw"} |->
        IF k = "application/vnd.account"
        THEN [typeName |-> "Account", views |-> {"default", "tiny", "link"},
              isError |-> FALSE, array |-> FALSE]
        ELSE IF k = "application/vnd.bottles"
        THEN [typeName |-> "BottleCollection", views |-> {"default", "tiny"},
              isError |-> FALSE, array |-> TRUE]
        ELSE IF k = "application/vnd.goa.error"
        THEN [typeName |-> "Error", views |-> {"default"},
              isError |-> TRUE, array |-> FALSE]
        ELSE [typeName |-> "Raw", views |-> {"tiny"},
              isError |-> FALSE, array |-> FALSE]]

\* codegen.Goify(view, true): the view name as an exported identifier part.
Goify(v) ==
    IF v = "default" THEN "Default"
    ELSE IF v = "tiny" THEN "Tiny"
    ELSE IF v = "link" THEN "Link"
    ELSE v

\* mt.Project(view): fails when the media type has no such view; otherwise
\* the projected media type, named after the type and the view.
Project(mt, view) ==
    IF view \in mt.views
    THEN [ok |-> TRUE,
          typeName |-> IF view = DefaultView THEN <<mt.typeName>>
                       ELSE <<mt.typeName, Goify(view)>>,
          isError |-> mt.isError,
          array |-> mt.array]
    ELSE [ok |-> FALSE, typeName |-> <<>>, isError |-> FALSE, array |-> FALSE]

\* codegen.GoTypeRef(pmt, pmt.AllRequired(), 1, false): a pointer to the
\* type, or the bare type name for a collection.
GoTypeRef(pmt) ==
    IF pmt.array THEN pmt.typeName ELSE <<"*">> \o pmt.typeName

\* codegen.GoNativeType(pmt)
GoNativeType(pmt) ==
    IF pmt.array THEN <<"[]interface{}">> ELSE <<"map[string]interface{}">>

\* strings.HasPrefix(s, "*") on a text held as a sequence of tokens.
HasStarPrefix(s) == Len(s) > 0 /\ Head(s) = "*"

\* What okResp returns when it returns nil.
NilResp == [nil |-> TRUE, name |-> <<>>, goType |-> <<>>, typeRef |-> <<>>]

\* A mutation of the constructor expression that always takes the address.
TypeRefAlwaysRef(pmt, target) ==
    IF pmt.isError THEN <<"goa.ErrInternal(\"not implemented\")">>
    ELSE <<"&", target, ".">> \o
         (IF HasStarPrefix(GoTypeRef(pmt)) THEN Tail(GoTypeRef(pmt))
          ELSE GoTypeRef(pmt)) \o <<"{}">>

\* The TypeRef entry of the descriptor: the internal-error sentinel, or the
\* zero-value constructor "[&]<target>.<name>{}".
TypeRef(pmt, target) ==
    IF pmt.isError THEN <<"goa.ErrInternal(\"not implemented\")">>
    ELSE LET ref == GoTypeRef(pmt)
             name == IF HasStarPrefix(ref) THEN Tail(ref) ELSE ref
             pointer == IF HasStarPrefix(ref) THEN <<"*">> ELSE <<>>
             typeref == pointer \o <<target, ".">> \o name
         IN (IF HasStarPrefix(typeref) THEN <<"&">> \o Tail(typeref)
             ELSE typeref) \o <<"{}">>

\* A mutation of the name suffix that qualifies every view.
NameSuffixAlways(view) == <<Goify(view)>>

\* nameSuffix: empty for the view "default", else the goified view name.
NameSuffix(view) == IF view # "default" THEN <<Goify(view)>> ELSE <<>>

\* A mutation of the status test that accepts every 2xx status.
IsOkStatusAny2xx(status) == status >= 200 /\ status < 300

\* resp.Status == 200
IsOkStatus(status) == status = StatusOK

\* Generator.okResp: the descriptor of the action's success response, or nil.
okResp(a, target) ==
    IF ~\E r \in a.responses : IsOkStatus(r.status) THEN NilResp
    ELSE LET ok == CHOOSE r \in a.responses : IsOkStatus(r.status)
             key == CanonicalIdentifier(ok.mediaType)
         IN IF key \notin DOMAIN MediaTypes THEN NilResp
            ELSE LET view == IF ok.view = "" THEN DefaultView ELSE ok.view
                     pmt == Project(MediaTypes[key], view)
                 IN IF ~pmt.ok THEN NilResp
                    ELSE [nil |-> FALSE,
                          name |-> <<ok.name>> \o NameSuffix(view),
                          goType |-> GoNativeType(pmt),
                          typeRef |-> TypeRef(pmt, target)]

\* A mutation of the dispatch that renders every action with the normal stub.
IsStreamNever(a) == FALSE

\* a.WebSocket()
IsStream(a) == a.ws

\* A mutation of the normal stub whose execution fails when okResp returns
\* nil.
RenderActionFailOnNil(a, target) ==
    IF IsStream(a)
    THEN [action |-> a.name, stub |-> "actionWS", consulted |-> FALSE,
          res |-> <<>>, ret |-> <<"nil">>, echo |-> TRUE, err |-> FALSE]
    ELSE LET ok == okResp(a, target) IN
         [action |-> a.name, stub |-> "action", consulted |-> TRUE,
          res |-> ok.typeRef,
          ret |-> IF ok.nil THEN <<>>
                  ELSE <<"ctx.">> \o ok.name \o <<"(res)">>,
          echo |-> FALSE, err |-> ok.nil]

\* One action rendered by the callback of IterateActions: the streaming stub
\* (actionWST) or the normal stub (actionT), which consults okResp; err is
\* the error of the template's execution ({{ if $ok }} on a nil map is
\* false, not an error).
RenderAction(a, target) ==
    IF IsStream(a)
    THEN [action |-> a.name, stub |-> "actionWS", consulted |-> FALSE,
          res |-> <<>>, ret |-> <<"nil">>, echo |-> TRUE, err |-> FALSE]
    ELSE LET ok == okResp(a, target) IN
         [action |-> a.name, stub |-> "action", consulted |-> TRUE,
          res |-> ok.typeRef,
          ret |-> IF ok.nil THEN <<"nil">>
                  ELSE <<"ctx.">> \o ok.name \o <<"(res)">>,
          echo |-> FALSE, err |-> FALSE]

\* g.Target of the generation runs.
Target == "app"

\* The actions of each resource of the design, in the order IterateActions
\* visits them.  "create" declares no 200 response, "list" a 200 response
\* with an identifier that is not in the mapping, "rate" a 200 response
\* whose media type has no default view; "watch" is a streaming action.
Actions(r) ==
    IF r = "account"
    THEN <<[name |-> "create", ws |-> FALSE,
            responses |->
              {[status |-> 201, name |-> "Created", view |-> "",
                mediaType |->
                  [base |-> "application/vnd.account", params |-> ""]]}],
           [name |-> "list", ws |-> FALSE,
            responses |->
              {[status |-> 200, name |-> "OK", view |-> "",
                mediaType |->
                  [base |-> "application/vnd.unknown", params |-> ""]]}],
           [name |-> "show", ws |-> FALSE,
            responses |->
              {[status |-> 200, name |-> "OK", view |-> "tiny",
                mediaType |->
                  [base |-> "application/vnd.account",
                   params |-> "; type=x"]],
               [status |-> 404, name |-> "NotFound", view |-> "",
                mediaType |-> [base |-> "", params |-> ""]]}]>>
    ELSE <<[name |-> "rate", ws |-> FALSE,
            responses |->
              {[status |-> 200, name |-> "OK", view |-> "",
                mediaType |->
                  [base |-> "application/vnd.raw", params |-> ""]]}],
           [name |-> "show", ws |-> FALSE,
            responses |->
              {[status |-> 200, name |-> "OK", view |-> "",
                mediaType |->
                  [base |-> "application/vnd.bottles", params |-> ""]]}],
           [name |-> "watch", ws |-> TRUE,
            responses |->
              {[status |-> 200, name |-> "OK", view |-> "",
                mediaType |->
                  [base |-> "application/vnd.bottles", params |-> ""]]}]>>

\* r.IterateActions with the rendering callback: the stubs of a resource
\* file, in order.
RenderFile(r) ==
    [i \in 1..Len(Actions(r)) |-> RenderAction(Actions(r)[i], Target)]

\* r.IterateActions returns a non-nil error.
RenderFails(r) == \E i \in 1..Len(Actions(r)) : RenderFile(r)[i].err

\* The inputs SpecAction renders: every action with at most one response per
\* status, the 200 response over every identifier and view.
Views == {"", "default", "tiny", "link"}

OtherResponses ==
    {[status |-> 201, name |-> "Created",
      mediaType |-> [base |-> "application/vnd.account", params |-> ""],
      view |-> ""],
     [status |-> 404, name |-> "NotFound",
      mediaType |-> [base |-> "", params |-> ""], view |-> ""]}

OkResponses ==
    {[status |-> StatusOK, name |-> "OK", mediaType |-> m, view |-> v] :
        m \in MediaIds, v \in Views}

ProbeActions ==
    {[name |-> "show", responses |-> rs \cup ok, ws |-> w] :
        rs \in SUBSET OtherResponses,
        ok \in {{}} \cup {{r} : r \in OkResponses},
        w \in BOOLEAN}

Targets == {"app", "myapp"}

NoProbe == [rendered |-> FALSE]

----------------------------------------------------------------------------
\* Failure environment of a process: whether codegen.PackagePath fails for
\* the output directory, and, for each target path, the step of its creation
\* that fails (if any).  Rendering and formatting are functions of the design
\* model, which does not change, so the environment is fixed for a behaviour.
Steps == {"none", "open", "render", "format"}

Envs ==
    {e \in [pkg : BOOLEAN, step : [Paths -> Steps]] :
        Cardinality({p \in Paths : e.step[p] # "none"}) <= MaxFailures}

Gens == 1..MaxRuns

Watchers == 1..MaxRuns

NoResult == [ret |-> FALSE, err |-> FALSE, files |-> <<>>]

VARIABLES
    fs,         \* the output directory: path -> content
    env,        \* the failure environment
    g,          \* the Generator the current run is invoked on (0: none yet)
    genfiles,   \* Generator.genfiles, for each Generator
    force,      \* Generator.Force of the current run
    pc,         \* position of the generation thread
    idx,        \* index of the resource IterateResources is at
    err,        \* the named result err of Generate
    result,     \* what the last Generate returned
    tempCount,  \* the package variable tempCount
    names,      \* every name tempvar has returned, in order
    run,        \* number of invocations of Generate so far
    wpc,        \* position of each watcher goroutine
    wgen,       \* the Generator each watcher's callback closes over
    wsnap,      \* the slice value a watcher's range loop iterates over
    wi,         \* the index a watcher's range loop is at
    fs0,        \* history: the output directory when the current run started
    recorded,   \* history: paths the current run appended to genfiles
    created,    \* history: paths whose file the current run created
    failed,     \* history: a step after the choice of a target file failed
    abortedRun, \* history: a signal arrived while the current run was running
    quietReturn,\* history: no watcher had been signalled when the run returned
    outside,    \* history: a watcher acts on a signal from outside this run
    prev,       \* history: force flag and outcome of the previous run
    probe,      \* an action rendered on its own, with its input
    inserted,   \* the order in which the resources were added to the design
    order,      \* the resources in the order IterateResources visits them
    visited     \* history: the resources the callback was called on

vars == <<fs, env, g, genfiles, force, pc, idx, err, result, tempCount, names,
          run, wpc, wgen, wsnap, wi, fs0, recorded, created, failed,
          abortedRun, quietReturn, outside, prev, probe, inserted, order,
          visited>>

gvars == <<fs, genfiles, pc, idx, err, result, tempCount, names, recorded,
           created, failed, quietReturn>>

\* No watcher has received a signal.
NoSignal == \A w \in Watchers : wpc[w] \in {"none", "armed"}

\* No watcher is inside Cleanup.
WatchersAtRest == \A w \in Watchers : wpc[w] \in {"none", "armed", "done"}

Init ==
    /\ fs \in [Paths -> {Absent, Old}]
    /\ env \in Envs
    /\ g = 0
    /\ genfiles = [x \in Gens |-> <<>>]
    /\ force = FALSE
    /\ pc = "idle"
    /\ idx = 0
    /\ err = FALSE
    /\ result = NoResult
    /\ tempCount = 0
    /\ names = <<>>
    /\ run = 0
    /\ wpc = [w \in Watchers |-> "none"]
    /\ wgen = [w \in Watchers |-> 0]
    /\ wsnap = [w \in Watchers |-> <<>>]
    /\ wi = [w \in Watchers |-> 0]
    /\ fs0 = fs
    /\ recorded = {}
    /\ created = {}
    /\ failed = FALSE
    /\ abortedRun = FALSE
    /\ quietReturn = FALSE
    /\ outside = FALSE
    /\ prev = [ran |-> FALSE, force |-> FALSE, ok |-> FALSE]
    /\ probe = NoProbe
    /\ inserted \in Insertions
    /\ order = <<>>
    /\ visited = <<>>

----------------------------------------------------------------------------
\* The deferred function of Generate on a return with err != nil:
\* g.Cleanup(), and the caller receives the error.  f is the directory as
\* the failing step left it.
ReturnError(f) ==
    /\ fs' = RemoveAll(f, genfiles[g])
    /\ genfiles' = [genfiles EXCEPT ![g] = <<>>]
    /\ err' = TRUE
    /\ result' = [ret |-> TRUE, err |-> TRUE, files |-> <<>>]
    /\ quietReturn' = NoSignal
    /\ pc' = "done"

\* Generate is invoked, on the Generator of the previous run (reuse) or on a
\* new one; it starts the watcher goroutine and registers the target package.
Generate(f, reuse) ==
    /\ pc \in {"idle", "done"}
    /\ run < MaxRuns
    /\ reuse => run > 0
    /\ run' = run + 1
    /\ g' = IF reuse THEN g ELSE run + 1
    /\ force' = f
    /\ wpc' = [wpc EXCEPT ![run + 1] = "armed"]
    /\ wgen' = [wgen EXCEPT ![run + 1] = g']
    /\ pc' = "begin"
    /\ idx' = 0
    /\ err' = FALSE
    /\ result' = NoResult
    /\ fs0' = fs
    /\ recorded' = {}
    /\ created' = {}
    /\ failed' = FALSE
    /\ abortedRun' = FALSE
    /\ quietReturn' = FALSE
    /\ outside' = ~WatchersAtRest
    /\ prev' = [ran |-> run > 0, force |-> force,
                ok |-> result.ret /\ ~result.err]
    /\ order' = <<>>
    /\ visited' = <<>>
    /\ UNCHANGED <<fs, env, genfiles, tempCount, names, wsnap, wi, probe,
                   inserted>>

\* The entry-point file is chosen or skipped: forced removal, package path
\* resolution, os.Stat, and the append that opens createMainFile.
GenMainStat ==
    /\ pc = "begin"
    /\ LET f1 == IF force THEN RemoveFile(fs, MainFile) ELSE fs IN
       IF env.pkg
       THEN /\ ReturnError(f1)
            /\ UNCHANGED <<idx, recorded, order>>
       ELSE IF Exists(f1, MainFile)
       THEN /\ fs' = f1
            /\ pc' = "res"
            /\ idx' = 1
            /\ order' = IterateOrder(inserted)
            /\ UNCHANGED <<genfiles, err, result, recorded, quietReturn>>
       ELSE /\ fs' = f1
            /\ genfiles' = [genfiles EXCEPT ![g] = Append(@, MainFile)]
            /\ recorded' = recorded \cup {MainFile}
            /\ pc' = "main"
            /\ UNCHANGED <<idx, err, result, quietReturn, order>>
    /\ UNCHANGED <<env, g, force, tempCount, names, run, wpc, wgen, wsnap, wi,
                   fs0, created, failed, abortedRun, outside, prev, probe,
                   inserted, visited>>

\* The rest of createMainFile: the file is opened, written, rendered (one
\* tempvar call per resource) and formatted; every failure is returned.
CreateMainFile ==
    /\ pc = "main"
    /\ LET s == env.step[MainFile] IN
       \E k \in 0..NumRes :
          /\ (s = "open") => k = 0
          /\ (s \in {"format", "none"}) => k = NumRes
          /\ tempCount' = tempCount + k
          /\ names' = names \o TempNames(tempCount, k)
          /\ failed' = (failed \/ s # "none")
          /\ created' = IF s = "open" THEN created
                        ELSE created \cup {MainFile}
          /\ IF s = "open"
             THEN /\ ReturnError(fs)
                  /\ UNCHANGED <<idx, order>>
             ELSE IF s \in {"render", "format"}
             THEN /\ ReturnError([fs EXCEPT ![MainFile] = Partial])
                  /\ UNCHANGED <<idx, order>>
             ELSE /\ fs' = [fs EXCEPT ![MainFile] =
                               Generated(TempNames(tempCount, k),
                                         MountOrder(inserted))]
                  /\ pc' = "res"
                  /\ idx' = 1
                  /\ order' = IterateOrder(inserted)
                  /\ err' = FALSE
                  /\ UNCHANGED <<genfiles, result, quietReturn>>
    /\ UNCHANGED <<env, g, force, run, wpc, wgen, wsnap, wi, fs0, recorded,
                   abortedRun, outside, prev, probe, inserted, visited>>

\* The callback of IterateResources up to the append: forced removal,
\* os.Stat, and the record of the path in genfiles.
GenResStat ==
    /\ pc = "res"
    /\ idx <= NumRes
    /\ LET p == FileName(order[idx])
           f1 == IF force THEN RemoveFile(fs, p) ELSE fs IN
       /\ fs' = f1
       /\ visited' = Append(visited, order[idx])
       /\ IF Exists(f1, p)
          THEN /\ idx' = idx + 1
               /\ UNCHANGED <<genfiles, recorded, pc>>
          ELSE /\ genfiles' = [genfiles EXCEPT ![g] = Append(@, p)]
               /\ recorded' = recorded \cup {p}
               /\ pc' = "write"
               /\ UNCHANGED idx
    /\ UNCHANGED <<env, g, force, err, result, tempCount, names, run, wpc,
                   wgen, wsnap, wi, fs0, created, failed, abortedRun, quietReturn,
                   outside, prev, probe, inserted, order>>

\* The value the callback returns for a failing step: the captured err of
\* Generate (nil at this point) for SourceFileFor and the templates, err2
\* for FormatCode.
CallbackError(s) == IF s = "format" THEN TRUE ELSE err

\* The rest of the callback: the resource file is opened, rendered and
\* formatted.  A non-nil return stops IterateResources and Generate returns
\* it; a nil return goes on to the next resource.
GenResWrite ==
    /\ pc = "write"
    /\ LET r == order[idx]
           p == FileName(r)
           s == IF env.step[p] = "none" /\ RenderFails(r) THEN "render"
                ELSE env.step[p]
           f1 == IF s = "open" THEN fs
                 ELSE IF s = "none"
                 THEN [fs EXCEPT ![p] = Generated(<<>>, RenderFile(r))]
                 ELSE [fs EXCEPT ![p] = Partial] IN
       /\ failed' = (failed \/ s # "none")
       /\ created' = IF s = "open" THEN created ELSE created \cup {p}
       /\ IF s # "none" /\ CallbackError(s)
          THEN /\ ReturnError(f1)
               /\ UNCHANGED idx
          ELSE /\ fs' = f1
               /\ idx' = idx + 1
               /\ pc' = "res"
               /\ UNCHANGED <<genfiles, err, result, quietReturn>>
    /\ UNCHANGED <<env, g, force, tempCount, names, run, wpc, wgen, wsnap, wi,
                   fs0, recorded, abortedRun, outside, prev, probe,
                   inserted, order, visited>>

\* return g.genfiles, nil
GenReturn ==
    /\ pc = "res"
    /\ idx = NumRes + 1
    /\ result' = [ret |-> TRUE, err |-> FALSE, files |-> genfiles[g]]
    /\ quietReturn' = NoSignal
    /\ pc' = "done"
    /\ UNCHANGED <<fs, env, g, genfiles, force, idx, err, tempCount, names,
                   run, wpc, wgen, wsnap, wi, fs0, recorded, created, failed,
                   abortedRun, outside, prev, probe,
                   inserted, order, visited>>

----------------------------------------------------------------------------
\* An abort signal is delivered to every goroutine waiting in utils.Catch.
Signal ==
    /\ \E w \in Watchers : wpc[w] = "armed"
    /\ wpc' = [w \in Watchers |-> IF wpc[w] = "armed" THEN "range" ELSE wpc[w]]
    /\ abortedRun' = (abortedRun \/ pc \notin {"idle", "done"})
    /\ outside' = (outside \/ pc \in {"idle", "done"})
    /\ UNCHANGED <<env, g, force, run, wgen, wsnap, wi, fs0, prev, probe,
                   inserted, order, visited>>
    /\ UNCHANGED gvars

\* Cleanup in a watcher: the range expression g.genfiles is evaluated.
WatcherRange(w) ==
    /\ wpc[w] = "range"
    /\ wsnap' = [wsnap EXCEPT ![w] = genfiles[wgen[w]]]
    /\ wi' = [wi EXCEPT ![w] = 1]
    /\ wpc' = [wpc EXCEPT ![w] =
                  IF genfiles[wgen[w]] = <<>> THEN "clear" ELSE "remove"]
    /\ UNCHANGED <<env, g, force, run, wgen, fs0, abortedRun, outside, prev, probe,
                   inserted, order, visited>>
    /\ UNCHANGED gvars

\* Cleanup in a watcher: os.Remove of the next element.
WatcherRemove(w) ==
    /\ wpc[w] = "remove"
    /\ fs' = RemoveFile(fs, wsnap[w][wi[w]])
    /\ wi' = [wi EXCEPT ![w] = @ + 1]
    /\ wpc' = [wpc EXCEPT ![w] =
                  IF wi[w] = Len(wsnap[w]) THEN "clear" ELSE "remove"]
    /\ UNCHANGED <<env, g, genfiles, force, pc, idx, err, result, tempCount,
                   names, run, wgen, wsnap, fs0, recorded, created, failed,
                   abortedRun, quietReturn, outside, prev, probe,
                   inserted, order, visited>>

\* Cleanup in a watcher: g.genfiles = nil.
WatcherClear(w) ==
    /\ wpc[w] = "clear"
    /\ genfiles' = [genfiles EXCEPT ![wgen[w]] = <<>>]
    /\ wpc' = [wpc EXCEPT ![w] = "done"]
    /\ wsnap' = [wsnap EXCEPT ![w] = <<>>]
    /\ wi' = [wi EXCEPT ![w] = 0]
    /\ UNCHANGED <<fs, env, g, force, pc, idx, err, result, tempCount, names,
                   run, wgen, fs0, recorded, created, failed, abortedRun,
                   quietReturn, outside, prev, probe,
                   inserted, order, visited>>

\* One call of the allocator: tempCount++ and the name for the new count.
Tempvar ==
    /\ tempCount < MaxCalls
    /\ tempCount' = tempCount + 1
    /\ names' = Append(names, TempName(tempCount + 1))
    /\ UNCHANGED <<fs, env, g, genfiles, force, pc, idx, err, result, run,
                   wpc, wgen, wsnap, wi, fs0, recorded, created, failed,
                   abortedRun, quietReturn, outside, prev, probe,
                   inserted, order, visited>>

\* One action is rendered for one target package.
RenderOne ==
    /\ \E a \in ProbeActions, t \in Targets :
          probe' = [rendered |-> TRUE, a |-> a, target |-> t,
                    out |-> RenderAction(a, t),
                    ok |-> okResp(a, t)]
    /\ UNCHANGED <<fs, env, g, genfiles, force, pc, idx, err, result,
                   tempCount, names, run, wpc, wgen, wsnap, wi, fs0, recorded,
                   created, failed, abortedRun, quietReturn, outside, prev,
                   inserted, order, visited>>

----------------------------------------------------------------------------
Next ==
    \/ \E f \in BOOLEAN, reuse \in BOOLEAN : Generate(f, reuse)
    \/ GenMainStat
    \/ CreateMainFile
    \/ GenResStat
    \/ GenResWrite
    \/ GenReturn
    \/ Signal
    \/ \E w \in Watchers : WatcherRange(w)
    \/ \E w \in Watchers : WatcherRemove(w)
    \/ \E w \in Watchers : WatcherClear(w)

Spec == Init /\ [][Next]_vars

\* Runs during which no abort signal is delivered.
NextNoAbort ==
    \/ \E f \in BOOLEAN, reuse \in BOOLEAN : Generate(f, reuse)
    \/ GenMainStat
    \/ CreateMainFile
    \/ GenResStat
    \/ GenResWrite
    \/ GenReturn

SpecNoAbort == Init /\ [][NextNoAbort]_vars

\* The allocator alone, called MaxCalls times in a process that generates
\* nothing else.
InitTemp ==
    /\ Init
    /\ fs = [p \in Paths |-> Absent]
    /\ ~env.pkg
    /\ \A p \in Paths : env.step[p] = "none"

NextTemp == Tempvar

SpecTemp == InitTemp /\ [][NextTemp]_vars

\* The rendering of single actions, in a process that generates nothing
\* else.
NextAction == RenderOne

SpecAction == InitTemp /\ [][NextAction]_vars

----------------------------------------------------------------------------
\* Claims.

\* C1: when a step after the choice of a target file has failed (open,
\* render, format; entry-point file or resource file), the run returns a
\* non-nil error, never success with a file list.
C1_FailureIsReported ==
    (pc = "done" /\ failed) => result.err

\* C2: when Generate returns a non-nil error and no abort signal is
\* involved, every path the run recorded in the creation log has been
\* deleted from the output directory and the creation log is empty.
C2_ErrorMeansRolledBack ==
    (pc = "done" /\ result.err) =>
        /\ genfiles[g] = <<>>
        /\ \A p \in recorded : ~Exists(fs, p)

\* C2 witness: a run that recorded the entry-point file and resource files
\* and created some of them has returned an error.
C2_Witness ==
    /\ pc = "done"
    /\ result.err
    /\ Cardinality(recorded) >= 2
    /\ created # {}

\* C3: of two runs in succession, both with force=false, on the unchanged
\* design, the second leaves the output directory as the first left it (every
\* file has the content it had after the first run), and after a first run
\* that returned its file list the second creates no file.
C3_SecondRunIdempotent ==
    (pc = "done" /\ prev.ran /\ ~force /\ ~prev.force) =>
        /\ fs = fs0
        /\ prev.ok => created = {}

\* C3 witness: the second of two force=false runs has returned after a first
\* run that succeeded, and the directory holds generated files.
C3_Witness ==
    /\ pc = "done"
    /\ prev.ran /\ prev.ok
    /\ ~force /\ ~prev.force
    /\ result.ret /\ ~result.err
    /\ \A p \in Paths : fs0[p].kind = "gen"

\* C4: with force=false, every file that exists at a target path when a run
\* starts exists with unchanged content when the run has ended, whatever the
\* outcome of the run (success, failure and rollback, rollback by the
\* watcher on a signal delivered during the run).
C4_ExistingFilesUntouched ==
    (pc = "done" /\ ~force /\ WatchersAtRest /\ ~outside) =>
        \A p \in Paths : Exists(fs0, p) => fs[p] = fs0[p]

\* C5: after a run with force=true that returned its file list, every target
\* file holds freshly generated content and is listed in the result.
C5_ForceRegeneratesAll ==
    (pc = "done" /\ force /\ result.ret /\ ~result.err) =>
        \A p \in Paths : fs[p].kind = "gen" /\ p \in Range(result.files)

\* C6: after Generate has returned an error, for either value of force, the
\* output directory is exactly as it was when the run started.
C6_FailureRestoresDirectory ==
    (pc = "done" /\ result.err) => fs = fs0

\* C7: when a watcher clears the creation log, the log holds no path that the
\* watcher's iteration did not cover: no append is interleaved between the
\* iteration and the clear.
C7_CleanupIsCriticalSection ==
    [][\A w \in Watchers :
          (wpc[w] = "clear" /\ wpc'[w] = "done") =>
              Range(genfiles[wgen[w]]) \subseteq Range(wsnap[w])]_vars

\* C8: when the watcher was signalled during a run, then once the run and
\* every rollback have finished, no file the run created is in the output
\* directory.
C8_AbortLeavesNoCreatedFile ==
    (pc = "done" /\ abortedRun /\ WatchersAtRest) =>
        \A p \in created : ~Exists(fs, p)

\* C9: after a run has returned its file list with a nil error, no signal
\* having been delivered before the return, the files it created exist: a
\* signal that fires afterwards does not undo the run.
C9_SuccessNotUndone ==
    (pc = "done" /\ result.ret /\ ~result.err /\ quietReturn) =>
        \A p \in created : Exists(fs, p)

\* C10: the names returned by consecutive calls of tempvar are pairwise
\* distinct, the first is "c", the k-th (k >= 2) is "c" followed by the
\* decimal digits of k, and the counter equals the number of calls made.
C10_TempNamesDistinct ==
    /\ Len(names) = tempCount
    /\ \A i, j \in 1..Len(names) : i # j => names[i] # names[j]
    /\ Len(names) >= 1 => names[1] = <<"c">>
    /\ \A k \in 2..Len(names) :
          /\ Head(names[k]) = "c"
          /\ Tail(names[k]) = Decimal(k)

\* C10 witness: a hundred names have been allocated, the last "c100".
C10_Witness ==
    /\ Len(names) >= 100
    /\ names[2] = <<"c", "2">>
    /\ names[100] = <<"c", "1", "0", "0">>

\* The action declares a 200 response whose identifier, stripped of its
\* parameters, is a key of the media-type mapping and whose effective view is
\* a view of that media type.
Resolvable(a) ==
    \E r \in a.responses :
        /\ r.status = 200
        /\ r.mediaType.base \in DOMAIN MediaTypes
        /\ (IF r.view = "" THEN "default" ELSE r.view)
               \in MediaTypes[r.mediaType.base].views

\* C11: every generated entry-point file mounts each resource once, in
\* strictly increasing byte order of the resource names, so the mounts of
\* two runs on the same design are the same whatever the insertion order of
\* the resource mapping; the callback visits the resources in that same
\* order, each at most once in a run.
C11_FixedOrder ==
    /\ \A f \in {fs[MainFile], fs0[MainFile]} :
          f.kind = "gen" =>
              /\ Len(f.body) = NumRes
              /\ Range(f.body) = Range(Resources)
              /\ \A i, j \in 1..Len(f.body) :
                    i < j => LexLess(Spelling(f.body[i]), Spelling(f.body[j]))
    /\ (fs[MainFile].kind = "gen" /\ fs0[MainFile].kind = "gen") =>
          fs[MainFile].body = fs0[MainFile].body
    /\ \A i, j \in 1..Len(visited) :
          i < j => LexLess(Spelling(visited[i]), Spelling(visited[j]))
    /\ (pc = "done" /\ result.ret /\ ~result.err) =>
          Range(visited) = Range(Resources)

\* C11 witness: on a design whose resources were inserted in descending
\* order, the second run recreated the entry-point file; both runs mounted
\* and visited "account" before "bottle".
C11_Witness ==
    /\ inserted = <<"bottle", "account">>
    /\ pc = "done"
    /\ MainFile \in created
    /\ fs0[MainFile].kind = "gen"
    /\ fs[MainFile].body = <<"account", "bottle">>
    /\ visited = <<"account", "bottle">>

\* The resource files no step of whose creation fails in the environment.
CleanFiles == {p \in Paths \ {MainFile} : env.step[p] = "none"}

\* C15: in a run in which no step of the environment fails, the actions
\* whose success response cannot be resolved do not stop the run: it
\* returns success, has visited every resource, and every resource file it
\* created holds one stub per action of the resource, in order, the stub of
\* an unresolvable action returning nil without a result variable.  The
\* same holds file by file for a resource file none of whose own steps
\* fails.
C15_UnresolvableIsNotFatal ==
    /\ (pc = "done" /\ ~env.pkg /\ \A p \in Paths : env.step[p] = "none") =>
          /\ result.ret /\ ~result.err
          /\ Range(visited) = Range(Resources)
    /\ \A r \in Range(Resources) :
          (FileName(r) \in created /\ FileName(r) \in CleanFiles
              /\ pc \in {"res", "done"} /\ Exists(fs, FileName(r))) =>
              LET b == fs[FileName(r)].body IN
              /\ fs[FileName(r)].kind = "gen"
              /\ Len(b) = Len(Actions(r))
              /\ \A i \in 1..Len(b) :
                    LET a == Actions(r)[i] IN
                    /\ b[i].action = a.name
                    /\ (~a.ws /\ ~Resolvable(a)) =>
                          (b[i].ret = <<"nil">> /\ b[i].res = <<>>)
                    /\ (~a.ws /\ Resolvable(a)) => b[i].ret # <<"nil">>

\* C15 witness: a run has returned success after creating both resource
\* files; the stubs of the three unresolvable actions return nil and the
\* stub after them in the same file returns a typed response.
C15_Witness ==
    /\ pc = "done"
    /\ result.ret /\ ~result.err
    /\ {"account.go", "bottle.go"} \subseteq created
    /\ fs["account.go"].body[1].ret = <<"nil">>
    /\ fs["account.go"].body[2].ret = <<"nil">>
    /\ fs["account.go"].body[3].ret = <<"ctx.", "OK", "Tiny", "(res)">>
    /\ fs["bottle.go"].body[1].ret = <<"nil">>
    /\ fs["bottle.go"].body[2].res = <<"app", ".", "BottleCollection", "{}">>

\* The 200 response of the rendered action and the view okResp projects
\* through; used where the action declares a 200 response.
ProbeOk == CHOOSE r \in probe.a.responses : r.status = 200

ProbeView == IF ProbeOk.view = "" THEN "default" ELSE ProbeOk.view

\* The rendered action declares a resolvable 200 response.
ProbeResolvable == Resolvable(probe.a)

\* C12: okResp returns a descriptor exactly when the action declares a
\* response of status 200 whose media-type identifier resolves and whose
\* effective view projects; otherwise it returns nil and the normal handler
\* returns nil without a result variable.
C12_OkRespIffResolvable ==
    probe.rendered =>
        /\ probe.ok.nil <=> ~ProbeResolvable
        /\ (~probe.a.ws /\ ~ProbeResolvable) =>
               (probe.out.ret = <<"nil">> /\ probe.out.res = <<>>)

\* C12 witness: an action whose only response is a 201 with a resolvable
\* media type was rendered, and okResp returned nil.
C12_Witness ==
    /\ probe.rendered
    /\ {r.status : r \in probe.a.responses} = {201}
    /\ ~probe.a.ws
    /\ probe.ok.nil
    /\ probe.out.ret = <<"nil">>

\* C13: the display name of a descriptor is the declared response name alone
\* when the effective view is "default" (named, or chosen for an empty view),
\* and the declared name followed by the goified view name for any other
\* view, which differs from the bare name.
C13_DisplayName ==
    (probe.rendered /\ ~probe.ok.nil) =>
        /\ ProbeView = "default" => probe.ok.name = <<ProbeOk.name>>
        /\ ProbeView # "default" =>
              /\ probe.ok.name = <<ProbeOk.name, Goify(ProbeView)>>
              /\ probe.ok.name # <<ProbeOk.name>>
              /\ Goify(ProbeView) # ""

\* C13 witness: a descriptor for the view "tiny" is named OKTiny.
C13_Witness ==
    /\ probe.rendered
    /\ ~probe.ok.nil
    /\ ProbeOk.view = "tiny"
    /\ probe.ok.name = <<"OK", "Tiny">>

\* C14: a streaming action is rendered with the streaming stub, without
\* okResp being consulted and without a zero-value construction, whether or
\* not it declares a 200 response; any other action is rendered with the
\* normal stub.
C14_StreamDispatch ==
    probe.rendered =>
        /\ probe.a.ws =>
              /\ probe.out.stub = "actionWS"
              /\ ~probe.out.consulted
              /\ probe.out.res = <<>>
              /\ probe.out.echo
        /\ ~probe.a.ws =>
              /\ probe.out.stub = "action"
              /\ probe.out.consulted

\* C14 witness: a streaming action with a resolvable 200 response was
\* rendered.
C14_Witness ==
    /\ probe.rendered
    /\ probe.a.ws
    /\ ProbeResolvable
    /\ probe.out.stub = "actionWS"

\* C18: in a descriptor, the constructor expression of an error-shaped
\* projected media type is the internal-error sentinel; otherwise it is
\* "<target>.<type>{}", preceded by "&" exactly when the type reference of
\* the projected type is a pointer.
C18_ConstructorExpression ==
    (probe.rendered /\ ~probe.ok.nil) =>
        LET mt == MediaTypes[ProbeOk.mediaType.base]
            pmt == Project(mt, ProbeView)
            ref == GoTypeRef(pmt)
            t == probe.ok.typeRef
        IN /\ mt.isError => t = <<"goa.ErrInternal(\"not implemented\")">>
           /\ ~mt.isError =>
                 /\ t[Len(t)] = "{}"
                 /\ Head(ref) = "*" =>
                       t = <<"&", probe.target, ".">> \o Tail(ref) \o <<"{}">>
                 /\ Head(ref) # "*" =>
                       t = <<probe.target, ".">> \o ref \o <<"{}">>

\* C18 witness: a descriptor for a collection, whose type reference is not a
\* pointer, constructs the value itself.
C18_Witness ==
    /\ probe.rendered
    /\ ~probe.ok.nil
    /\ probe.target = "myapp"
    /\ probe.ok.typeRef = <<"myapp", ".", "BottleCollection", "Tiny", "{}">>

\* The target paths in the order a run gets to them.
TargetOrder == <<MainFile>> \o [i \in 1..Len(order) |-> FileName(order[i])]

\* The files the current run created, in the order it got to them.
CreatedInOrder == SelectSeq(TargetOrder, LAMBDA p : p \in created)

\* C16: on a run that returned success, no step having failed and no signal
\* delivered, the returned list is the creation log of that run: the files
\* the run created, in the order it created them, and no other path.
C16_ResultIsCreationLog ==
    (pc = "done" /\ result.ret /\ ~result.err /\ ~failed) =>
        result.files = CreatedInOrder

\* The resource files the current run did not get to before it returned.
NotReached ==
    {FileName(r) : r \in Range(Resources)} \ {FileName(r) : r \in Range(visited)}

\* C17: the Cleanup of an invocation's error path deletes no file that an
\* earlier invocation created and the failing invocation neither recorded
\* nor got to.
C17_CleanupOnlyLastInvocation ==
    (pc = "done" /\ result.err) =>
        \A p \in NotReached \ recorded :
            fs0[p].kind \in {"gen", "partial"} => fs[p] = fs0[p]

\* C19: in a run with force=false a path is recorded for creation exactly
\* when its file is missing at that moment, whatever the state of the other
\* target files; when the run has returned success and no step failed, every
\* file that was missing is generated and every file that existed is
\* unchanged and was not created.
C19_IndependentCreateOrSkip ==
    /\ (~force /\ pc # "idle") =>
           \A p \in recorded : ~Exists(fs0, p)
    /\ (pc = "done" /\ ~force /\ result.ret /\ ~result.err /\ ~failed) =>
           \A p \in Paths :
               /\ Exists(fs0, p) => (fs[p] = fs0[p] /\ p \notin created)
               /\ ~Exists(fs0, p) =>
                     (p \in created /\ p \in recorded /\ fs[p].kind = "gen")

\* C19 witness: the entry-point file and one resource file existed, the
\* other resource file was missing and is the only file the run created.
C19_Witness ==
    /\ pc = "done"
    /\ ~force /\ result.ret /\ ~result.err /\ ~failed
    /\ fs0[MainFile] = Old
    /\ fs0["account.go"] = Old
    /\ fs0["bottle.go"] = Absent
    /\ created = {"bottle.go"}
    /\ fs["bottle.go"].kind = "gen"

\* C20 as stated: two runs of one process that both created the entry-point
\* file emitted the same scratch-variable names.
C20_SameNamesEveryRun ==
    (MainFile \in created /\ fs[MainFile].kind = "gen"
        /\ fs0[MainFile].kind = "gen") =>
        fs[MainFile].tmps = fs0[MainFile].tmps

\* C20 amended: a run that creates the entry-point file emits one scratch
\* name per resource, and the names continue the numbering of the process:
\* the i-th is the name for the counter value reached by the i-th call since
\* the run started, so only the first creating run of a process emits "c",
\* "c2", ...; a later run shares no name with the file it replaces.
C20_NamesContinueNumbering ==
    (pc \in {"res", "write", "done"} /\ MainFile \in created
        /\ fs[MainFile].kind = "gen") =>
        /\ Len(fs[MainFile].tmps) = NumRes
        /\ \A i \in 1..NumRes :
              fs[MainFile].tmps[i] = TempName(tempCount - NumRes + i)
        /\ fs0[MainFile].kind = "gen" =>
              Range(fs[MainFile].tmps) \cap Range(fs0[MainFile].tmps) = {}

\* C20 witness: the second run of a process recreated the entry-point file
\* and emitted "c3" and "c4".
C20_Witness ==
    /\ pc = "done"
    /\ MainFile \in created
    /\ fs0[MainFile].kind = "gen"
    /\ fs0[MainFile].tmps = <<<<"c">>, <<"c", "2">>>>
    /\ fs[MainFile].tmps = <<<<"c", "3">>, <<"c", "4">>>>

====
